---- MODULE Spec2Model ----
(***************************************************************************)
(* Model of examples/generate_test_images.py: the create_* pattern         *)
(* generators, the grayscale buffer they return, the draw calls they       *)
(* issue, and the process-wide random generator used by the noise grid.    *)
(***************************************************************************)
EXTENDS Integers, Sequences, FiniteSets

VARIABLES pc, call, img, ops, rng, font, err, savedQr

vars == <<pc, call, img, ops, rng, font, err, savedQr>>

(***************************************************************************)
(* Bounds of the model.                                                    *)
(***************************************************************************)
MaxSize == 6
MaxSquare == 4
MaxDim == 5
MaxCircleSize == 14
MaxLogoSize == 80
MaxPhotoSize == 7
MaxTextW == 40
MaxTextH == 16
MaxQrSize == 24

(***************************************************************************)
(* IEEE-754 binary64 arithmetic, as CPython performs `(n / d) * 255` and   *)
(* int().  A double is held as [t, l, e]: its value is                     *)
(*     (t + l[1]/B + l[2]/B^2 + l[3]/B^3 + l[4]/B^4) * 2^e,   B = 2^13,    *)
(* so a normalised double has t = 1 and its 52 fraction bits in the four   *)
(* 13-bit limbs of l.  Division and multiplication round to nearest, ties  *)
(* to even.                                                                *)
(***************************************************************************)
RECURSIVE Pow2(_)
Pow2(k) == IF k = 0 THEN 1 ELSE 2 * Pow2(k - 1)

LimbBase == Pow2(13)

\* Smallest s with n * 2^s >= d, for 0 < n < d.
RECURSIVE NormShift(_, _)
NormShift(n, d) == IF n >= d THEN 0 ELSE 1 + NormShift(2 * n, d)

\* Number of bits of a positive integer.
RECURSIVE BitLen(_)
BitLen(v) == IF v = 0 THEN 0 ELSE 1 + BitLen(v \div 2)

\* f + inc units of the last limb, carries propagated.
AddUlps(f, inc) ==
    LET s4 == f.l[4] + inc
        s3 == f.l[3] + s4 \div LimbBase
        s2 == f.l[2] + s3 \div LimbBase
        s1 == f.l[1] + s2 \div LimbBase
    IN  [t |-> f.t + s1 \div LimbBase,
         l |-> <<s1 % LimbBase, s2 % LimbBase, s3 % LimbBase, s4 % LimbBase>>,
         e |-> f.e]

\* n / d for integers 0 <= n < d < 2^17: long division, 13 quotient bits a
\* step, then the rounding of the 53-bit quotient on the remainder.
TrueDivide(n, d) ==
    IF n = 0 THEN [t |-> 0, l |-> <<0, 0, 0, 0>>, e |-> 0]
    ELSE LET s  == NormShift(n, d)
             r0 == n * Pow2(s) - d
             q1 == (r0 * LimbBase) \div d
             r1 == (r0 * LimbBase) % d
             q2 == (r1 * LimbBase) \div d
             r2 == (r1 * LimbBase) % d
             q3 == (r2 * LimbBase) \div d
             r3 == (r2 * LimbBase) % d
             q4 == (r3 * LimbBase) \div d
             r4 == (r3 * LimbBase) % d
             f  == [t |-> 1, l |-> <<q1, q2, q3, q4>>, e |-> 0 - s]
             up == \/ 2 * r4 > d
                   \/ 2 * r4 = d /\ q4 % 2 = 1
             g  == IF up THEN AddUlps(f, 1) ELSE f
         IN  IF g.t = 2 THEN [t |-> 1, l |-> g.l, e |-> g.e + 1] ELSE g

\* f * k for a normalised double f and an integer 0 < k < 2^13: the exact
\* product limb by limb, then rounded to 53 significant bits.
FloatMul(f, k) ==
    IF f.t = 0 THEN f
    ELSE LET p4   == f.l[4] * k
             p3   == f.l[3] * k + p4 \div LimbBase
             p2   == f.l[2] * k + p3 \div LimbBase
             p1   == f.l[1] * k + p2 \div LimbBase
             x    == [t |-> f.t * k + p1 \div LimbBase,
                      l |-> <<p1 % LimbBase, p2 % LimbBase, p3 % LimbBase,
                              p4 % LimbBase>>,
                      e |-> f.e]
             drop == Pow2(BitLen(x.t) - 1)
             low  == x.l[4] % drop
             odd  == (x.l[4] \div drop) % 2 = 1
             down == [x EXCEPT !.l[4] = @ - low]
             up   == \/ 2 * low > drop
                     \/ 2 * low = drop /\ odd
         IN  IF up THEN AddUlps(down, drop) ELSE down

\* int(f): truncation toward zero, for 0 <= f < 2^13.
FloatToInt(f) == f.t \div Pow2(0 - f.e)

(***************************************************************************)
(* The grayscale buffer (PIL mode 'L') and the ImageDraw primitives.       *)
(***************************************************************************)
None == 0 - 1

Pixels(w, h) == (0..(w - 1)) \X (0..(h - 1))

\* The size given as (height, width).
NewImageSwapped(w, h, colour) ==
    [w |-> h, h |-> w, px |-> [p \in Pixels(h, w) |-> colour]]

\* Image.new('L', (w, h), colour)
NewImage(w, h, colour) ==
    [w |-> w, h |-> h, px |-> [p \in Pixels(w, h) |-> colour]]

\* No buffer is held (before a call, and after the driver has saved one).
NoImage == [w |-> 0, h |-> 0, px |-> [p \in {} |-> 0]]

\* A pixel store into an 8-bit sample.
Store8(v) == IF v < 0 THEN 0 ELSE IF v > 255 THEN 255 ELSE v

\* draw.rectangle(box, fill=...)
Rect(box, fill) ==
    [op |-> "rectangle", box |-> box, fill |-> fill, outline |-> None,
     width |-> 1, pts |-> <<>>]

\* draw.rectangle(box, outline=..., width=...)
RectOutline(box, outline, width) ==
    [op |-> "rectangle", box |-> box, fill |-> None, outline |-> outline,
     width |-> width, pts |-> <<>>]

\* draw.ellipse(box, outline=..., width=...)
EllipseOutline(box, outline, width) ==
    [op |-> "ellipse", box |-> box, fill |-> None, outline |-> outline,
     width |-> width, pts |-> <<>>]

\* draw.polygon(pts, fill=...)
Polygon(pts, fill) ==
    [op |-> "polygon", box |-> <<0, 0, 0, 0>>, fill |-> fill, outline |-> None,
     width |-> 1, pts |-> pts]

\* draw.text((x, y), text, fill=..., font=...): box is the ink box of the
\* text placed at (x, y).
Text(box, fill) ==
    [op |-> "text", box |-> box, fill |-> fill, outline |-> None,
     width |-> 1, pts |-> <<>>]

InBox(b, p) == b[1] <= p[1] /\ p[1] <= b[3] /\ b[2] <= p[2] /\ p[2] <= b[4]

\* The `width` outermost rings of pixels of a box.
OnBorder(b, width, p) ==
    /\ InBox(b, p)
    /\ \/ p[1] - b[1] < width
       \/ b[3] - p[1] < width
       \/ p[2] - b[2] < width
       \/ b[4] - p[2] < width

\* Inside the ellipse inscribed in box b shrunk by k pixels on every side.
InEllipse(b, k, p) ==
    LET A == b[3] - b[1] + 1 - 2 * k
        B == b[4] - b[2] + 1 - 2 * k
        X == 2 * p[1] - (b[1] + b[3])
        Y == 2 * p[2] - (b[2] + b[4])
    IN  /\ InBox(b, p)
        /\ A > 0
        /\ B > 0
        /\ X * X * B * B + Y * Y * A * A <= A * A * B * B

\* Inside the convex polygon pts (on or to one side of every edge).
InPolygon(pts, p) ==
    LET n == Len(pts)
        side(i) ==
            LET a == pts[i]
                b == pts[(i % n) + 1]
            IN  (b[1] - a[1]) * (p[2] - a[2]) - (b[2] - a[2]) * (p[1] - a[1])
    IN  \/ \A i \in 1..n : side(i) >= 0
        \/ \A i \in 1..n : side(i) <= 0

\* Whether primitive o inks pixel p with its fill / its outline.
Fills(o, p) ==
    /\ o.fill # None
    /\ IF o.op = "ellipse" THEN InEllipse(o.box, 0, p)
       ELSE IF o.op = "polygon" THEN InPolygon(o.pts, p)
       ELSE InBox(o.box, p)

Outlines(o, p) ==
    /\ o.outline # None
    /\ IF o.op = "ellipse"
       THEN InEllipse(o.box, 0, p) /\ ~InEllipse(o.box, o.width, p)
       ELSE OnBorder(o.box, o.width, p)

\* One primitive drawn into the buffer: only pixels of the buffer are
\* written (the library clips at the canvas edge).
Paint(im, o) ==
    [im EXCEPT !.px = [p \in Pixels(im.w, im.h) |->
        IF Outlines(o, p) THEN o.outline
        ELSE IF Fills(o, p) THEN o.fill
        ELSE im.px[p]]]

\* The draw calls of a generator, applied in program order.
RECURSIVE Draw(_, _, _)
Draw(im, os, i) ==
    IF i > Len(os) THEN im ELSE Draw(Paint(im, os[i]), os, i + 1)

\* len(range(0, stop, step))
RangeLen(stop, step) == (stop + step - 1) \div step

(***************************************************************************)
(* create_checkerboard                                                     *)
(***************************************************************************)
\* The far corner taken one pixel too far.
CheckerCellOverlapping(x, y, square_size) ==
    Rect(<<x, y, x + square_size, y + square_size>>, 0)

CheckerCell(x, y, square_size) ==
    Rect(<<x, y, x + square_size - 1, y + square_size - 1>>, 0)

RECURSIVE CheckerOps(_, _, _)
CheckerOps(size, square_size, i) ==
    LET n == RangeLen(size, square_size)
        x == (i % n) * square_size
        y == (i \div n) * square_size
    IN  IF i >= n * n THEN <<>>
        ELSE IF ((x \div square_size) + (y \div square_size)) % 2 = 0
             THEN <<CheckerCell(x, y, square_size)>>
                      \o CheckerOps(size, square_size, i + 1)
             ELSE CheckerOps(size, square_size, i + 1)

create_checkerboard(size, square_size) ==
    LET os == CheckerOps(size, square_size, 0)
    IN  [img |-> Draw(NewImage(size, size, 255), os, 1), ops |-> os]

(***************************************************************************)
(* create_gradient                                                         *)
(***************************************************************************)
\* The ramp running the other way.
RampValueReversed(n, d) ==
    FloatToInt(FloatMul(TrueDivide(d - 1 - n, d), 255))

\* round() in place of int().
RampValueRounded(n, d) ==
    LET f == FloatMul(TrueDivide(n, d), 255)
    IN  IF f.t = 0 THEN 0 ELSE (f.t \div Pow2(0 - f.e - 1) + 1) \div 2

\* int((n / d) * 255)
RampValue(n, d) == FloatToInt(FloatMul(TrueDivide(n, d), 255))

\* The two axes exchanged.
GradientValueSwapped(x, y, width, height, direction) ==
    IF direction = "horizontal"
    THEN FloatToInt(FloatMul(TrueDivide(y, height), 255))
    ELSE IF direction = "vertical"
    THEN FloatToInt(FloatMul(TrueDivide(x, width), 255))
    ELSE FloatToInt(FloatMul(TrueDivide(x + y, width + height), 255))

GradientValue(x, y, width, height, direction) ==
    IF direction = "horizontal" THEN RampValue(x, width)
    ELSE IF direction = "vertical" THEN RampValue(y, height)
    ELSE RampValue(x + y, width + height)

\* pixels[x, y] = value, for every pixel of the new buffer.
create_gradient(width, height, direction) ==
    LET im == NewImage(width, height, 0)
    IN  [img |-> [im EXCEPT !.px = [p \in Pixels(im.w, im.h) |->
                        Store8(GradientValue(p[1], p[2], width, height,
                                             direction))]],
         ops |-> <<>>]

(***************************************************************************)
(* create_circle_pattern                                                   *)
(***************************************************************************)
\* for r in range(5, center, 10): the i-th ring and the following ones.
RECURSIVE CircleOps(_, _)
CircleOps(center, r) ==
    IF r >= center THEN <<>>
    ELSE <<EllipseOutline(<<center - r, center - r, center + r, center + r>>,
                          0, 3)>> \o CircleOps(center, r + 10)

create_circle_pattern(size) ==
    LET os == CircleOps(size \div 2, 5)
    IN  [img |-> Draw(NewImage(size, size, 255), os, 1), ops |-> os]

(***************************************************************************)
(* create_test_logo                                                        *)
(***************************************************************************)
LogoOps(size) ==
    LET margin   == 10
        x_offset == margin + 35
    IN  << Rect(<<margin, margin, margin + 15, margin + 60>>, 0),
           Rect(<<margin, margin, margin + 25, margin + 10>>, 0),
           Rect(<<margin, margin + 25, margin + 20, margin + 35>>, 0),
           Rect(<<margin, margin + 50, margin + 25, margin + 60>>, 0),
           Rect(<<x_offset, margin, x_offset + 10, margin + 60>>, 0),
           EllipseOutline(<<x_offset + 10, margin, x_offset + 35, margin + 30>>,
                          0, 3) >>

create_test_logo(size) ==
    LET os == LogoOps(size)
    IN  [img |-> Draw(NewImage(size, size, 255), os, 1), ops |-> os]

(***************************************************************************)
(* create_photo_like                                                       *)
(***************************************************************************)
PhotoOps(size) ==
    LET house_x  == size \div 3
        house_y  == size \div 2 - 30
        house_w  == size \div 3
        house_h  == 40
        win_size == 10
    IN  << Rect(<<0, 0, size, size \div 2>>, 200),
           Rect(<<0, size \div 2, size, size>>, 100),
           Rect(<<house_x, house_y, house_x + house_w, house_y + house_h>>, 50),
           Polygon(<< <<house_x - 10, house_y>>,
                      <<house_x + house_w \div 2, house_y - 20>>,
                      <<house_x + house_w + 10, house_y>> >>, 30),
           Rect(<<house_x + 10, house_y + 10,
                  house_x + 10 + win_size, house_y + 10 + win_size>>, 150),
           Rect(<<house_x + house_w - 20, house_y + 10,
                  house_x + house_w - 10, house_y + 10 + win_size>>, 150) >>

create_photo_like(size) ==
    LET os == PhotoOps(size)
    IN  [img |-> Draw(NewImage(size, size, 128), os, 1), ops |-> os]

(***************************************************************************)
(* create_text_image                                                       *)
(***************************************************************************)
FontSize == 24

\* ImageFont.truetype(path, 24): raises OSError when the file cannot be
\* opened.
LoadTruetype(fileOk) ==
    IF fileOk THEN [font |-> "truetype", err |-> "none"]
    ELSE [font |-> "none", err |-> "OSError"]

\* No handler around the load.
LoadFontNoFallback(fileOk) == LoadTruetype(fileOk)

\* try: truetype(...)  except: load_default()
LoadFont(fileOk) ==
    LET t == LoadTruetype(fileOk)
    IN  IF t.err # "none" THEN [font |-> "default", err |-> "none"] ELSE t

\* draw.textbbox((0, 0), text, font=font) as <<left, top, right, bottom>>:
\* the glyph metrics of the font (the scalable font at FontSize, or the
\* built-in bitmap font).
TextBBox(text, f) ==
    IF f = "truetype"
    THEN <<0, FontSize \div 4, Len(text) * ((2 * FontSize) \div 3), FontSize>>
    ELSE <<0, 0, Len(text) * 6, 11>>

create_text_image(text, size, fileOk) ==
    LET loaded      == LoadFont(fileOk)
        bbox        == TextBBox(text, loaded.font)
        text_width  == bbox[3] - bbox[1]
        text_height == bbox[4] - bbox[2]
        x           == (size[1] - text_width) \div 2
        y           == (size[2] - text_height) \div 2
        os          == << Text(<<x + bbox[1], y + bbox[2],
                                 x + bbox[3] - 1, y + bbox[4] - 1>>, 0) >>
    IN  IF loaded.err # "none"
        THEN [img |-> NoImage, ops |-> <<>>, font |-> loaded.font,
              err |-> loaded.err]
        ELSE [img |-> Draw(NewImage(size[1], size[2], 255), os, 1),
              ops |-> os, font |-> loaded.font, err |-> "none"]

(***************************************************************************)
(* The process-wide generator of the random module, and                    *)
(* create_qr_code_like.  A generator state is the seed of its stream and   *)
(* the number of values drawn since; StreamBits(seed)[k] is whether the    *)
(* k-th value of CPython's stream for that seed exceeds 0.5.               *)
(***************************************************************************)
StreamBits(seed) ==
    IF seed = 42 THEN
     << 1, 0, 0, 0, 1, 1, 1, 0, 0, 0, 0, 1, 0, 0, 1, 1, 0, 1, 1, 0, 1, 1, 0, 0,
        1, 0, 0, 0, 1, 1, 1, 1, 1, 1, 0, 1, 1, 1, 1, 1, 1, 0, 0, 0, 0, 0, 0, 0,
        1, 0, 0, 0, 0, 1, 1, 1, 0, 1, 0, 0, 1, 1, 1, 1, 1, 1, 0, 0, 0, 0, 0, 1,
        1, 0, 1, 0, 1, 0, 0, 0, 1, 0, 1, 1, 0, 0, 1, 1, 0, 0, 0, 1, 1, 0, 0, 0 >>
    ELSE IF seed = 1 THEN
     << 0, 1, 1, 0, 0, 0, 1, 1, 0, 0, 1, 0, 1, 0, 0, 1, 0, 1, 1, 0, 0, 1, 1, 0,
        0, 0, 0, 0, 0, 0, 0, 0, 0, 0, 0, 0, 1, 1, 1, 0, 1, 1, 0, 0, 1, 1, 1, 0,
        1, 1, 0, 1, 1, 1, 1, 1, 0, 0, 1, 0, 0, 1, 1, 1, 0, 0, 1, 1, 1, 0, 0, 0,
        0, 1, 1, 1, 0, 0, 1, 1, 1, 1, 1, 0, 1, 1, 1, 0, 0, 1, 1, 0, 1, 1, 1, 1 >>
    ELSE
     << 1, 1, 0, 0, 1, 0, 1, 0, 0, 1, 1, 1, 0, 1, 1, 0, 1, 1, 1, 1, 0, 1, 1, 1,
        0, 0, 0, 1, 1, 1, 0, 1, 0, 1, 1, 0, 1, 0, 1, 1, 0, 0, 1, 0, 0, 1, 0, 1,
        0, 1, 1, 0, 0, 0, 1, 1, 0, 1, 1, 1, 1, 1, 1, 1, 1, 0, 1, 0, 1, 0, 0, 0,
        1, 1, 0, 0, 1, 1, 1, 1, 1, 1, 1, 0, 1, 0, 1, 1, 1, 1, 1, 1, 0, 1, 1, 1 >>

\* Values left in the modelled part of the stream.
StreamLeft(r) == Len(StreamBits(r.seed)) - r.n

\* The generator left as it was.
SeedRngSkipped(r, seed) == r

\* random.seed(seed)
SeedRng(r, seed) == [seed |-> seed, n |-> 0]

\* random.random() > 0.5, and the generator state after the draw.
RandomAbove(r) == StreamBits(r.seed)[r.n + 1] = 1

Advance(r) == [r EXCEPT !.n = @ + 1]

\* The cell loop: the i-th cell and the following ones, drawing one value
\* per cell in row-major order.
RECURSIVE QrCellOps(_, _, _, _)
QrCellOps(size, cell_size, r, i) ==
    LET n == RangeLen(size, cell_size)
        x == (i % n) * cell_size
        y == (i \div n) * cell_size
    IN  IF i >= n * n THEN <<>>
        ELSE IF RandomAbove(r)
             THEN <<Rect(<<x, y, x + cell_size - 1, y + cell_size - 1>>, 0)>>
                      \o QrCellOps(size, cell_size, Advance(r), i + 1)
             ELSE QrCellOps(size, cell_size, Advance(r), i + 1)

QrCorners(size, marker_size) ==
    << <<0, 0>>, <<size - marker_size, 0>>, <<0, size - marker_size>> >>

QrMarkerOps(size, marker_size) ==
    [k \in 1..3 |->
        LET corner == QrCorners(size, marker_size)[k]
        IN  RectOutline(<<corner[1], corner[2],
                          corner[1] + marker_size, corner[2] + marker_size>>,
                        0, 2)]

\* The markers drawn before the cell loop.
QrDrawOrderMarkersFirst(cellOps, markerOps) == markerOps \o cellOps

\* Program order of the two drawing phases: the cell loop, then the markers.
QrDrawOrder(cellOps, markerOps) == cellOps \o markerOps

create_qr_code_like(size, r) ==
    LET seeded    == SeedRng(r, 42)
        cell_size == 4
        n         == RangeLen(size, cell_size)
        os        == QrDrawOrder(QrCellOps(size, cell_size, seeded, 0),
                                 QrMarkerOps(size, 12))
    IN  [img |-> Draw(NewImage(size, size, 255), os, 1), ops |-> os,
         rng |-> [seeded EXCEPT !.n = @ + n * n]]

(***************************************************************************)
(* The driver: main() calls one generator at a time and saves the buffer   *)
(* it returns before making the next call.                                 *)
(***************************************************************************)
CheckerArgs ==
    ((1..MaxSize) \X (1..MaxSquare)) \cup {<<64, 8>>}

Directions == {"horizontal", "vertical", "diagonal", "radial"}

GradientArgs ==
    ((1..MaxDim) \X (1..MaxDim) \X Directions) \cup {<<128, 64, "horizontal">>}

CircleSizes == 1..MaxCircleSize

LogoSizes == {MaxLogoSize \div 2, MaxLogoSize}

PhotoSizes == 1..MaxPhotoSize

Texts == {"E-Paper", "Hello!", "TEST"}

TextSizes == {20, MaxTextW} \X {10, MaxTextH}

QrSizes == {MaxQrSize - 16, MaxQrSize - 8, MaxQrSize}

\* Streams the generator may be on when the process starts (it is seeded
\* from the operating system's entropy at import).
StartSeeds == {0, 1}

Call(kind, w, h, c, dir, text) ==
    [kind |-> kind, w |-> w, h |-> h, c |-> c, dir |-> dir, text |-> text]

NoCall == Call("none", 0, 0, 0, "", "")

Init ==
    /\ pc = "idle"
    /\ call = NoCall
    /\ img = NoImage
    /\ ops = <<>>
    /\ rng \in {[seed |-> s, n |-> 0] : s \in StartSeeds}
    /\ font = "none"
    /\ err = "none"
    /\ savedQr = [s \in QrSizes |-> NoImage]

\* A generator that only draws: it returns its buffer.
Returns(c, res) ==
    /\ pc' = "returned"
    /\ call' = c
    /\ img' = res.img
    /\ ops' = res.ops
    /\ font' = "none"
    /\ err' = "none"
    /\ UNCHANGED <<rng, savedQr>>

CreateCheckerboard ==
    /\ pc = "idle"
    /\ \E a \in CheckerArgs :
          Returns(Call("checkerboard", a[1], a[1], a[2], "", ""),
                  create_checkerboard(a[1], a[2]))

CreateGradient ==
    /\ pc = "idle"
    /\ \E a \in GradientArgs :
          Returns(Call("gradient", a[1], a[2], 0, a[3], ""),
                  create_gradient(a[1], a[2], a[3]))

CreateCirclePattern ==
    /\ pc = "idle"
    /\ \E s \in CircleSizes :
          Returns(Call("circles", s, s, 0, "", ""), create_circle_pattern(s))

CreateTestLogo ==
    /\ pc = "idle"
    /\ \E s \in LogoSizes :
          Returns(Call("logo", s, s, 0, "", ""), create_test_logo(s))

CreatePhotoLike ==
    /\ pc = "idle"
    /\ \E s \in PhotoSizes :
          Returns(Call("photo", s, s, 0, "", ""), create_photo_like(s))

\* fileOk: whether the TrueType font file can be opened.
CreateTextImage ==
    /\ pc = "idle"
    /\ \E text \in Texts, size \in TextSizes, fileOk \in BOOLEAN :
          LET res == create_text_image(text, size, fileOk)
          IN  /\ pc' = IF res.err = "none" THEN "returned" ELSE "raised"
              /\ call' = Call("text", size[1], size[2], 0, "", text)
              /\ img' = res.img
              /\ ops' = res.ops
              /\ font' = res.font
              /\ err' = res.err
              /\ UNCHANGED <<rng, savedQr>>

CreateQrCodeLike ==
    /\ pc = "idle"
    /\ \E s \in QrSizes :
          /\ StreamLeft(SeedRng(rng, 42)) >= RangeLen(s, 4) * RangeLen(s, 4)
          /\ LET res == create_qr_code_like(s, rng)
             IN  /\ pc' = "returned"
                 /\ call' = Call("qr", s, s, 0, "", "")
                 /\ img' = res.img
                 /\ ops' = res.ops
                 /\ rng' = res.rng
                 /\ font' = "none"
                 /\ err' = "none"
                 /\ UNCHANGED savedQr

\* <buffer>.save(path): the buffer is written out and dropped.  savedQr is
\* what the files written for the noise grid hold, by size.
Save ==
    /\ pc = "returned"
    /\ pc' = "idle"
    /\ call' = NoCall
    /\ img' = NoImage
    /\ ops' = <<>>
    /\ font' = "none"
    /\ savedQr' = IF call.kind = "qr" THEN [savedQr EXCEPT ![call.w] = img]
                  ELSE savedQr
    /\ UNCHANGED <<rng, err>>

Next ==
    \/ CreateCheckerboard
    \/ CreateGradient
    \/ CreateCirclePattern
    \/ CreateTestLogo
    \/ CreatePhotoLike
    \/ CreateTextImage
    \/ CreateQrCodeLike
    \/ Save

Spec == Init /\ [][Next]_vars

(***************************************************************************)
(* Properties.                                                             *)
(***************************************************************************)
Returned(kind) == pc = "returned" /\ call.kind = kind

\* C1: in the buffer returned by create_checkerboard(S, C) every pixel
\* (px, py) is black iff (px div C) + (py div C) is even and white
\* otherwise, partial last cells included; for S = 64, C = 8 pixel (0, 0) is
\* 0 and pixel (8, 0) is 255.
CheckerboardParity ==
    Returned("checkerboard") =>
        /\ \A p \in Pixels(call.w, call.h) :
              img.px[p] = IF ((p[1] \div call.c) + (p[2] \div call.c)) % 2 = 0
                          THEN 0 ELSE 255
        /\ (call.w = 64 /\ call.c = 8) =>
              img.px[<<0, 0>>] = 0 /\ img.px[<<8, 0>>] = 255

\* A checkerboard whose size is not a multiple of the square size, with more
\* than one cell a row, has been returned.
CheckerboardPartialCells ==
    /\ Returned("checkerboard")
    /\ call.w % call.c # 0
    /\ call.w > call.c
    /\ call.c > 1

\* C2: the buffer returned by create_gradient is non-decreasing along x for
\* 'horizontal', along y for 'vertical', and along both for any other
\* direction.
GradientMonotone ==
    Returned("gradient") =>
        LET alongX == \A x \in 0..(call.w - 2), y \in 0..(call.h - 1) :
                          img.px[<<x, y>>] <= img.px[<<x + 1, y>>]
            alongY == \A x \in 0..(call.w - 1), y \in 0..(call.h - 2) :
                          img.px[<<x, y>>] <= img.px[<<x, y + 1>>]
        IN  IF call.dir = "horizontal" THEN alongX
            ELSE IF call.dir = "vertical" THEN alongY
            ELSE alongX /\ alongY

\* A gradient of another direction than the two named ones, rising along
\* both axes, has been returned.
GradientRisesBothWays ==
    /\ Returned("gradient")
    /\ call.dir \notin {"horizontal", "vertical"}
    /\ call.w >= 2
    /\ call.h >= 2
    /\ img.px[<<0, 0>>] < img.px[<<1, 0>>]
    /\ img.px[<<0, 0>>] < img.px[<<0, 1>>]

\* C3: in the buffer of create_gradient(128, 64, 'horizontal'), for every
\* row y, pixel (0, y) is 0 and pixel (127, y) is within 1 of 254.
GradientDriverEnds ==
    (Returned("gradient") /\ call.w = 128 /\ call.h = 64
        /\ call.dir = "horizontal") =>
        \A y \in 0..63 :
            /\ img.px[<<0, y>>] = 0
            /\ img.px[<<127, y>>] >= 253
            /\ img.px[<<127, y>>] <= 255

\* The driver's horizontal gradient has been returned.
GradientDriverReturned ==
    /\ Returned("gradient")
    /\ call.w = 128
    /\ call.h = 64
    /\ call.dir = "horizontal"
    /\ img.px[<<127, 63>>] = 253

\* C4: a call create_qr_code_like(size) returns the very buffer that an
\* earlier call with the same size returned (and the driver saved),
\* whatever calls were made in between and whatever state the process-wide
\* generator was in.
QrReproducible ==
    (Returned("qr") /\ savedQr[call.w] # NoImage) => img = savedQr[call.w]

\* A noise grid has been returned for a size generated before, with a noise
\* grid of another size generated before it too.
QrGeneratedAgain ==
    /\ Returned("qr")
    /\ savedQr[call.w] # NoImage
    /\ \E s \in QrSizes : s # call.w /\ savedQr[s] # NoImage

\* C5: no generator call changes the state of the process-wide random
\* generator.
GeneratorsLeaveRng == [][rng' = rng]_vars

\* C6: the buffer a generator returns has exactly the requested width and
\* height, whatever its draw calls reach past.
BufferDimensions ==
    pc = "returned" =>
        /\ img.w = call.w
        /\ img.h = call.h
        /\ DOMAIN img.px = Pixels(call.w, call.h)

\* A non-square text image whose text reaches past the right edge of the
\* canvas has been returned.
TextPastTheEdge ==
    /\ Returned("text")
    /\ call.w # call.h
    /\ ops[1].box[3] >= call.w

\* C7: create_text_image always returns a buffer: when the TrueType font
\* cannot be loaded the built-in font is used, the text is measured with
\* it, centred and drawn, and no error reaches the caller.
TextNeverFails ==
    call.kind = "text" =>
        /\ pc = "returned"
        /\ err = "none"
        /\ font \in {"truetype", "default"}
        /\ img.w = call.w /\ img.h = call.h
        /\ Len(ops) = 1
        /\ ops[1].op = "text"
        /\ LET bbox == TextBBox(call.text, font)
               x    == ops[1].box[1] - bbox[1]
               y    == ops[1].box[2] - bbox[2]
           IN  /\ x = (call.w - (bbox[3] - bbox[1])) \div 2
               /\ y = (call.h - (bbox[4] - bbox[2])) \div 2
        /\ \A p \in Pixels(call.w, call.h) :
              img.px[p] = IF InBox(ops[1].box, p) THEN 0 ELSE 255

\* A text image drawn with the built-in font, some of it inked, has been
\* returned.
TextWithFallbackFont ==
    /\ Returned("text")
    /\ font = "default"
    /\ \E p \in Pixels(call.w, call.h) : img.px[p] = 0

\* C8: the coordinates create_test_logo(S2) draws are those
\* create_test_logo(S1) draws, scaled by S2 / S1.
LogoScales ==
    Returned("logo") =>
        \A s1 \in LogoSizes :
            s1 < call.w =>
                /\ Len(ops) = Len(LogoOps(s1))
                /\ \A i \in 1..Len(ops), k \in 1..4 :
                      ops[i].box[k] * s1 = LogoOps(s1)[i].box[k] * call.w

\* C9: every pixel of a gradient is the truncated ramp of its axis:
\* floor(255 x / width), floor(255 y / height) or
\* floor(255 (x + y) / (width + height)), a value in 0..255.
GradientIsFloorRamp ==
    Returned("gradient") =>
        \A p \in Pixels(call.w, call.h) :
            /\ img.px[p] =
                  IF call.dir = "horizontal" THEN (255 * p[1]) \div call.w
                  ELSE IF call.dir = "vertical" THEN (255 * p[2]) \div call.h
                  ELSE (255 * (p[1] + p[2])) \div (call.w + call.h)
            /\ img.px[p] \in 0..255

\* A horizontal gradient of width 3, whose exact ramp value 255/3 is the
\* integer 85 while 1/3 is not a double, has been returned.
GradientExactThird ==
    /\ Returned("gradient")
    /\ call.dir = "horizontal"
    /\ call.w = 3
    /\ img.px[<<1, 0>>] = 85
    /\ img.px[<<2, 0>>] = 170

\* The three marker rectangles of a noise grid, as boxes, and the colour of
\* the 4x4 cell of a pixel (the cells are drawn from the stream of seed 42,
\* row by row).
MarkerBoxes(size) ==
    << <<0, 0, 12, 12>>,
       <<size - 12, 0, size, 12>>,
       <<0, size - 12, 12, size>> >>

OnMarkerOutline(size, p) ==
    \E k \in 1..3 : OnBorder(MarkerBoxes(size)[k], 2, p)

InsideMarker(size, p) ==
    \E k \in 1..3 :
        InBox(MarkerBoxes(size)[k], p) /\ ~OnBorder(MarkerBoxes(size)[k], 2, p)

OutsideMarkers(size, p) ==
    \A k \in 1..3 : ~InBox(MarkerBoxes(size)[k], p)

CellColour(size, p) ==
    LET n == RangeLen(size, 4)
        i == (p[2] \div 4) * n + (p[1] \div 4)
    IN  IF StreamBits(42)[i + 1] = 1 THEN 0 ELSE 255

\* The markers are the last three draw calls, after every cell.
MarkersDrawnLast ==
    /\ Len(ops) >= 3
    /\ \A i \in 1..Len(ops) :
          IF i > Len(ops) - 3
          THEN ops[i].outline = 0 /\ ops[i].width = 2
               /\ ops[i].box = MarkerBoxes(call.w)[i - (Len(ops) - 3)]
          ELSE ops[i].fill = 0 /\ ops[i].outline = None

\* C10 as stated: the markers are drawn after the cells; every pixel on a
\* marker's 2-pixel outline is black; every pixel strictly inside a marker
\* outline, and every pixel outside the markers, has the colour of its cell.
QrMarkersAsStated ==
    Returned("qr") =>
        /\ MarkersDrawnLast
        /\ \A p \in Pixels(call.w, call.h) :
              /\ OnMarkerOutline(call.w, p) => img.px[p] = 0
              /\ InsideMarker(call.w, p) => img.px[p] = CellColour(call.w, p)
              /\ OutsideMarkers(call.w, p) =>
                    img.px[p] = CellColour(call.w, p)

\* C10 amended: the markers are drawn after the cells; every pixel on a
\* marker's 2-pixel outline is black; every pixel on no marker's outline
\* (strictly inside a marker outline, or outside the markers) has the colour
\* of its cell.
QrMarkersOverCells ==
    Returned("qr") =>
        /\ MarkersDrawnLast
        /\ \A p \in Pixels(call.w, call.h) :
              /\ OnMarkerOutline(call.w, p) => img.px[p] = 0
              /\ ~OnMarkerOutline(call.w, p) =>
                    img.px[p] = CellColour(call.w, p)

\* A noise grid has been returned in which a marker outline blackened a
\* pixel of a white cell, and a white pixel lies strictly inside a marker.
QrMarkerOverWhiteCell ==
    /\ Returned("qr")
    /\ \E p \in Pixels(call.w, call.h) :
          /\ OnMarkerOutline(call.w, p)
          /\ CellColour(call.w, p) = 255
          /\ img.px[p] = 0
    /\ \E p \in Pixels(call.w, call.h) :
          /\ InsideMarker(call.w, p)
          /\ ~OnMarkerOutline(call.w, p)
          /\ img.px[p] = 255

====
